---- MODULE Spec2Model ----
(***************************************************************************)
(* A model of the raycasting engine of raycasting-doom: the tile grid      *)
(* (map.py), the viewer (player.py), the ray caster (raycasting.py), the   *)
(* sprite projector (sprite_object.py) and the compositor                  *)
(* (object_renderer.py).                                                   *)
(*                                                                         *)
(* Numbers.  TLC has 32-bit integers and no reals, so the floats of the    *)
(* program are fixed-point integers:                                       *)
(*   - a position or a depth is an integer number of 1/U tiles;            *)
(*   - a sine or cosine is an integer number of 1/S;                       *)
(*   - an angle handed to math.sin or math.cos is an integer number of     *)
(*     angle units, DELTA_ANGLE/13 radians each (1.0069e-4 rad), so that   *)
(*     FOV, HALF_FOV, DELTA_ANGLE and a full turn are whole numbers;       *)
(*   - the viewer angle itself is an IEEE-754 double held exactly, as a    *)
(*     two-limb count <<hi, lo>> of 2^-57 radians (hi * 2^30 + lo), with   *)
(*     the additions and the % of player.py rounded as the hardware        *)
(*     rounds them (53-bit significand, ties to even).                     *)
(***************************************************************************)
EXTENDS Integers, Sequences, FiniteSets, TLC

VARIABLES
    pc,             \* where the program is: the call or loop that runs next
    mini_map,       \* Map.mini_map: the rows of the input array
    world_map,      \* Map.world_map: (col, row) -> wall ID
    x, y,           \* Player.x, Player.y, in 1/U tiles
    angle,          \* Player.angle, a double: <<hi, lo>> in 2^-57 rad
    delta_time,     \* Game.delta_time, in ms
    frame,          \* number of Game.update calls so far
    moved,          \* the last Player.movement call: its dx, dy and the pose before it
    ray_casting_result, \* RayCasting.ray_casting_result: one record per ray
    objects_to_render,  \* RayCasting.objects_to_render: the draw items
    sprite_list,    \* ObjectHandler.sprite_list
    screen,         \* the items render_game_objects blitted last, in blit order
    ticks           \* pg.time.get_ticks() as ObjectHandler.update last read it, in ms

vars == <<pc, mini_map, world_map, x, y, angle, delta_time, frame, moved,
          ray_casting_result, objects_to_render, sprite_list, screen, ticks>>

\* What Player.update leaves alone but the renderer writes.
render_vars == <<ray_casting_result, objects_to_render, sprite_list, screen, ticks>>
\* What the renderer reads and leaves alone.
world_vars == <<mini_map, world_map, x, y, angle, delta_time, frame, moved>>

---------------------------------------------------------------------------
(* Bounds of the model. *)

\* Game.update calls explored by Spec.
MaxFrames == 2
\* Game.update calls explored by SpecRot (rotation keys only).
MaxRotFrames == 40
\* Rows and columns of the input arrays SpecMap enumerates.
MaxRows == 2
MaxCols == 2
\* Frames explored by SpecRay.
MaxRayFrames == 2
\* Bearings of the viewer explored by SpecSprite.
MaxSpriteAngles == 24

---------------------------------------------------------------------------
(* Fixed-point scales and the program's constants in them. *)

\* Position units per tile.
U == 1000
\* Units of a sine or cosine.
S == 1000000

\* settings.py: PLAYER_POS = 1.5, 5
PLAYER_POS == <<1500, 5000>>
\* settings.py: PLAYER_SPEED = 0.004 tiles per ms, in 1/U tiles per ms.
PLAYER_SPEED == 4
\* settings.py: DELTA_ANGLE = FOV / NUM_RAYS, in angle units.
DELTA_ANGLE == 13
\* settings.py: NUM_RAYS = WIDTH // 2
WIDTH == 1600
HEIGHT == 900
NUM_RAYS == WIDTH \div 2
HALF_NUM_RAYS == NUM_RAYS \div 2
\* settings.py: FOV = math.pi / 3 = NUM_RAYS * DELTA_ANGLE; TAU = 6 * FOV.
FOV == NUM_RAYS * DELTA_ANGLE
HALF_FOV == FOV \div 2
TAU == 6 * FOV
\* Lattice points (multiples of DELTA_ANGLE) in a full and a quarter turn.
LATTICE == TAU \div DELTA_ANGLE
QUARTER == LATTICE \div 4

---------------------------------------------------------------------------
(* math.sin and math.cos.  SinTab[n + 1] = round(S * sin(n * DELTA_ANGLE)) *)
(* for n = 0 .. QUARTER; the other quadrants by symmetry, the angles       *)
(* between two lattice points by the first-order term (the second-order    *)
(* term is below 1/S for a residual of at most 6 units).                   *)

SinTab == <<
    0, 1309, 2618, 3927, 5236, 6545, 7854, 9163, 10472, 11781, 13090, 14398,
    15707, 17016, 18325, 19634, 20942, 22251, 23560, 24868, 26177, 27485, 28794, 30102,
    31411, 32719, 34027, 35336, 36644, 37952, 39260, 40568, 41876, 43183, 44491, 45799,
    47106, 48414, 49721, 51029, 52336, 53643, 54950, 56257, 57564, 58871, 60177, 61484,
    62791, 64097, 65403, 66709, 68015, 69321, 70627, 71933, 73238, 74544, 75849, 77154,
    78459, 79764, 81069, 82373, 83678, 84982, 86286, 87590, 88894, 90198, 91502, 92805,
    94108, 95411, 96714, 98017, 99320, 100622, 101924, 103227, 104528, 105830, 107132, 108433,
    109734, 111035, 112336, 113637, 114937, 116237, 117537, 118837, 120137, 121436, 122735, 124034,
    125333, 126632, 127930, 129228, 130526, 131824, 133121, 134419, 135716, 137012, 138309, 139605,
    140901, 142197, 143493, 144788, 146083, 147378, 148672, 149967, 151261, 152555, 153848, 155141,
    156434, 157727, 159020, 160312, 161604, 162895, 164187, 165478, 166769, 168059, 169350, 170639,
    171929, 173218, 174508, 175796, 177085, 178373, 179661, 180948, 182236, 183522, 184809, 186095,
    187381, 188667, 189952, 191237, 192522, 193806, 195090, 196374, 197657, 198940, 200223, 201505,
    202787, 204069, 205350, 206631, 207912, 209192, 210472, 211751, 213030, 214309, 215588, 216866,
    218143, 219421, 220697, 221974, 223250, 224526, 225801, 227076, 228351, 229625, 230899, 232172,
    233445, 234718, 235990, 237262, 238533, 239804, 241075, 242345, 243615, 244884, 246153, 247422,
    248690, 249958, 251225, 252492, 253758, 255024, 256289, 257554, 258819, 260083, 261347, 262610,
    263873, 265135, 266397, 267659, 268920, 270180, 271440, 272700, 273959, 275218, 276476, 277734,
    278991, 280248, 281504, 282760, 284015, 285270, 286525, 287778, 289032, 290285, 291537, 292789,
    294040, 295291, 296542, 297791, 299041, 300290, 301538, 302786, 304033, 305280, 306526, 307772,
    309017, 310262, 311506, 312749, 313992, 315235, 316477, 317718, 318959, 320200, 321439, 322679,
    323917, 325156, 326393, 327630, 328867, 330103, 331338, 332573, 333807, 335040, 336274, 337506,
    338738, 339969, 341200, 342430, 343660, 344889, 346117, 347345, 348572, 349799, 351025, 352250,
    353475, 354699, 355923, 357146, 358368, 359590, 360811, 362031, 363251, 364470, 365689, 366907,
    368125, 369341, 370557, 371773, 372988, 374202, 375416, 376629, 377841, 379052, 380263, 381474,
    382683, 383892, 385101, 386309, 387516, 388722, 389928, 391133, 392337, 393541, 394744, 395946,
    397148, 398349, 399549, 400749, 401948, 403146, 404344, 405540, 406737, 407932, 409127, 410321,
    411514, 412707, 413899, 415090, 416281, 417471, 418660, 419848, 421036, 422223, 423409, 424595,
    425779, 426963, 428147, 429329, 430511, 431692, 432873, 434052, 435231, 436409, 437587, 438763,
    439939, 441114, 442289, 443462, 444635, 445807, 446979, 448149, 449319, 450488, 451656, 452824,
    453990, 455156, 456322, 457486, 458650, 459812, 460974, 462136, 463296, 464456, 465615, 466773,
    467930, 469086, 470242, 471397, 472551, 473704, 474856, 476008, 477159, 478309, 479458, 480606,
    481754, 482900, 484046, 485191, 486335, 487479, 488621, 489763, 490904, 492044, 493183, 494321,
    495459, 496595, 497731, 498866, 500000, 501133, 502266, 503397, 504528, 505657, 506786, 507914,
    509041, 510168, 511293, 512418, 513541, 514664, 515786, 516907, 518027, 519146, 520265, 521382,
    522499, 523614, 524729, 525843, 526956, 528068, 529179, 530289, 531399, 532507, 533615, 534721,
    535827, 536932, 538035, 539138, 540240, 541341, 542442, 543541, 544639, 545736, 546833, 547928,
    549023, 550116, 551209, 552301, 553392, 554481, 555570, 556658, 557745, 558831, 559916, 561000,
    562083, 563166, 564247, 565327, 566406, 567485, 568562, 569638, 570714, 571788, 572861, 573934,
    575005, 576076, 577145, 578214, 579281, 580348, 581413, 582478, 583541, 584604, 585665, 586726,
    587785, 588844, 589901, 590958, 592013, 593068, 594121, 595173, 596225, 597275, 598325, 599373,
    600420, 601466, 602512, 603556, 604599, 605641, 606682, 607722, 608761, 609799, 610836, 611872,
    612907, 613941, 614974, 616005, 617036, 618065, 619094, 620121, 621148, 622173, 623197, 624221,
    625243, 626264, 627284, 628303, 629320, 630337, 631353, 632367, 633381, 634393, 635405, 636415,
    637424, 638432, 639439, 640445, 641450, 642453, 643456, 644457, 645458, 646457, 647455, 648452,
    649448, 650443, 651437, 652429, 653421, 654411, 655400, 656388, 657375, 658361, 659346, 660329,
    661312, 662293, 663273, 664252, 665230, 666207, 667183, 668157, 669131, 670103, 671074, 672044,
    673013, 673980, 674947, 675912, 676876, 677839, 678801, 679761, 680721, 681679, 682636, 683592,
    684547, 685501, 686453, 687404, 688355, 689303, 690251, 691198, 692143, 693087, 694030, 694972,
    695913, 696852, 697790, 698727, 699663, 700598, 701531, 702464, 703395, 704325, 705253, 706181,
    707107, 708032, 708956, 709878, 710799, 711720, 712639, 713556, 714473, 715388, 716302, 717215,
    718126, 719037, 719946, 720854, 721760, 722666, 723570, 724473, 725374, 726275, 727174, 728072,
    728969, 729864, 730758, 731651, 732543, 733433, 734323, 735210, 736097, 736982, 737867, 738749,
    739631, 740511, 741391, 742268, 743145, 744020, 744894, 745767, 746638, 747508, 748377, 749245,
    750111, 750976, 751840, 752702, 753563, 754423, 755282, 756139, 756995, 757850, 758703, 759555,
    760406, 761255, 762104, 762950, 763796, 764640, 765483, 766325, 767165, 768004, 768842, 769678,
    770513, 771347, 772179, 773010, 773840, 774669, 775496, 776322, 777146, 777969, 778791, 779611,
    780430, 781248, 782065, 782880, 783693, 784506, 785317, 786127, 786935, 787742, 788548, 789352,
    790155, 790957, 791757, 792556, 793353, 794150, 794944, 795738, 796530, 797321, 798110, 798898,
    799685, 800470, 801254, 802036, 802817, 803597, 804376, 805153, 805928, 806703, 807475, 808247,
    809017, 809786, 810553, 811319, 812084, 812847, 813608, 814369, 815128, 815885, 816642, 817396,
    818150, 818902, 819652, 820401, 821149, 821896, 822641, 823384, 824126, 824867, 825606, 826344,
    827081, 827816, 828549, 829281, 830012, 830742, 831470, 832196, 832921, 833645, 834367, 835088,
    835807, 836525, 837242, 837957, 838671, 839383, 840094, 840803, 841511, 842217, 842922, 843626,
    844328, 845029, 845728, 846426, 847122, 847817, 848510, 849202, 849893, 850582, 851269, 851955,
    852640, 853323, 854005, 854685, 855364, 856042, 856718, 857392, 858065, 858736, 859406, 860075,
    860742, 861408, 862072, 862734, 863396, 864055, 864713, 865370, 866025, 866679, 867331, 867982,
    868632, 869279, 869926, 870570, 871214, 871856, 872496, 873135, 873772, 874408, 875042, 875675,
    876307, 876937, 877565, 878192, 878817, 879441, 880063, 880684, 881303, 881921, 882538, 883152,
    883766, 884377, 884988, 885596, 886204, 886809, 887413, 888016, 888617, 889217, 889815, 890411,
    891007, 891600, 892192, 892782, 893371, 893959, 894545, 895129, 895712, 896293, 896873, 897451,
    898028, 898603, 899176, 899748, 900319, 900888, 901455, 902021, 902585, 903148, 903709, 904269,
    904827, 905384, 905939, 906492, 907044, 907594, 908143, 908690, 909236, 909780, 910323, 910864,
    911403, 911941, 912477, 913012, 913545, 914077, 914607, 915136, 915663, 916188, 916712, 917234,
    917755, 918274, 918791, 919307, 919821, 920334, 920845, 921355, 921863, 922370, 922875, 923378,
    923880, 924380, 924878, 925375, 925871, 926364, 926857, 927347, 927836, 928324, 928810, 929294,
    929776, 930258, 930737, 931215, 931691, 932166, 932639, 933111, 933580, 934049, 934515, 934981,
    935444, 935906, 936366, 936825, 937282, 937737, 938191, 938644, 939094, 939543, 939991, 940437,
    940881, 941323, 941764, 942204, 942641, 943078, 943512, 943945, 944376, 944806, 945234, 945661,
    946085, 946509, 946930, 947350, 947768, 948185, 948600, 949014, 949425, 949836, 950244, 950651,
    951057, 951460, 951862, 952263, 952661, 953059, 953454, 953848, 954240, 954631, 955020, 955407,
    955793, 956177, 956560, 956940, 957319, 957697, 958073, 958447, 958820, 959191, 959560, 959928,
    960294, 960658, 961021, 961382, 961741, 962099, 962455, 962810, 963163, 963514, 963863, 964211,
    964557, 964902, 965245, 965586, 965926, 966264, 966600, 966935, 967268, 967599, 967929, 968257,
    968583, 968908, 969231, 969552, 969872, 970190, 970506, 970821, 971134, 971446, 971755, 972064,
    972370, 972675, 972978, 973279, 973579, 973877, 974173, 974468, 974761, 975053, 975342, 975630,
    975917, 976201, 976485, 976766, 977046, 977324, 977600, 977875, 978148, 978419, 978689, 978957,
    979223, 979487, 979750, 980012, 980271, 980529, 980785, 981040, 981293, 981544, 981793, 982041,
    982287, 982532, 982774, 983016, 983255, 983493, 983729, 983963, 984196, 984427, 984656, 984883,
    985109, 985334, 985556, 985777, 985996, 986213, 986429, 986643, 986856, 987066, 987275, 987483,
    987688, 987892, 988094, 988295, 988494, 988691, 988886, 989080, 989272, 989463, 989651, 989838,
    990024, 990207, 990389, 990569, 990748, 990925, 991100, 991273, 991445, 991615, 991783, 991950,
    992115, 992278, 992439, 992599, 992757, 992914, 993068, 993221, 993373, 993522, 993670, 993816,
    993961, 994104, 994245, 994384, 994522, 994658, 994792, 994925, 995056, 995185, 995312, 995438,
    995562, 995684, 995805, 995924, 996041, 996157, 996270, 996382, 996493, 996602, 996709, 996814,
    996917, 997019, 997119, 997218, 997314, 997409, 997503, 997594, 997684, 997772, 997859, 997944,
    998027, 998108, 998188, 998266, 998342, 998416, 998489, 998560, 998630, 998697, 998763, 998827,
    998890, 998951, 999010, 999067, 999123, 999177, 999229, 999280, 999328, 999376, 999421, 999465,
    999507, 999547, 999585, 999622, 999657, 999691, 999722, 999752, 999781, 999807, 999832, 999855,
    999877, 999896, 999914, 999931, 999945, 999958, 999969, 999979, 999986, 999992, 999997, 999999,
    1000000
>>

\* round(S * sin(1 angle unit))
SIN_UNIT == 101

\* Python's int(): truncation toward zero, of a value in 1/q.
TruncDiv(a, q) == IF a >= 0 THEN a \div q ELSE -((-a) \div q)

\* a / q rounded to nearest, halves away from zero.
RoundDiv(a, q) == IF a >= 0 THEN (a + q \div 2) \div q ELSE -((-a + q \div 2) \div q)

Abs(a) == IF a >= 0 THEN a ELSE -a

\* a * b / S rounded to nearest, for |b| <= S and |a| < 2^31, without
\* leaving 32 bits: a = a1 * S + a0, a0 = p * 1000 + q, b = r * 1000 + t.
MulS(a, b) ==
    LET aa == Abs(a)
        bb == Abs(b)
        a1 == aa \div S
        a0 == aa % S
        p  == a0 \div 1000
        q  == a0 % 1000
        r  == bb \div 1000
        t  == bb % 1000
        m  == a1 * bb + p * r + ((p * t + q * r) * 1000 + q * t + S \div 2) \div S
    IN  IF (a >= 0) = (b >= 0) THEN m ELSE -m

\* sin of lattice point n (any integer).
SinL(n) ==
    LET k == n % LATTICE
    IN  IF k <= QUARTER THEN SinTab[k + 1]
        ELSE IF k <= 2 * QUARTER THEN SinTab[2 * QUARTER - k + 1]
        ELSE IF k <= 3 * QUARTER THEN -SinTab[k - 2 * QUARTER + 1]
        ELSE -SinTab[LATTICE - k + 1]

CosL(n) == SinL(n + QUARTER)

\* The nearest lattice point of angle a (in angle units) and the residual.
LatticeOf(a) == (a + DELTA_ANGLE \div 2) \div DELTA_ANGLE
ResidueOf(a) == a - LatticeOf(a) * DELTA_ANGLE

\* math.sin(a), math.cos(a) for a in angle units.
Sin(a) == SinL(LatticeOf(a)) + MulS(ResidueOf(a) * SIN_UNIT, CosL(LatticeOf(a)))
Cos(a) == CosL(LatticeOf(a)) - MulS(ResidueOf(a) * SIN_UNIT, SinL(LatticeOf(a)))

---------------------------------------------------------------------------
(* IEEE-754 doubles that are multiples of 2^-57, as <<hi, lo>> with        *)
(* value = (hi * B + lo) * 2^-57 and 0 <= lo < B.  Every viewer angle is   *)
(* one: 0.05 is 0x1.999999999999ap-5, a multiple of 2^-57, math.tau is a   *)
(* multiple of 2^-50, and a sum rounded to 53 bits stays a multiple.       *)

B == 1073741824

\* settings.py: PLAYER_ROT_SPEED = 0.05
PLAYER_ROT_SPEED == <<6710886, 429496730>>
\* math.tau = 0x1.921fb54442d18p+2
MATH_TAU == <<843314856, 571902976>>
FZERO == <<0, 0>>

FNeg(a) == IF a[2] = 0 THEN <<-a[1], 0>> ELSE <<-a[1] - 1, B - a[2]>>

FIsNeg(a) == a[1] < 0

FLess(a, b) == a[1] < b[1] \/ (a[1] = b[1] /\ a[2] < b[2])

\* The exact sum.
FSum(a, b) ==
    LET l == a[2] + b[2]
    IN  IF l >= B THEN <<a[1] + b[1] + 1, l - B>> ELSE <<a[1] + b[1], l>>

\* 2^n for n = 0 .. 7
Pow2(n) == <<1, 2, 4, 8, 16, 32, 64, 128>>[n + 1]

\* The binade of a non-negative value below 2^60 units: the least j >= 0 with
\* hi < 2^(23 + j); the value has at most 53 + j significant bits.
Binade(hi) ==
    IF hi < 8388608 THEN 0
    ELSE IF hi < 16777216 THEN 1
    ELSE IF hi < 33554432 THEN 2
    ELSE IF hi < 67108864 THEN 3
    ELSE IF hi < 134217728 THEN 4
    ELSE IF hi < 268435456 THEN 5
    ELSE IF hi < 536870912 THEN 6
    ELSE 7

\* A non-negative exact value rounded to a double: to a multiple of 2^j
\* units, ties to the even multiple.
FRoundPos(a) ==
    LET j    == Binade(a[1])
        q    == Pow2(j)
        r    == a[2] % q
        down == a[2] - r
        up   == IF 2 * r > q THEN TRUE
                ELSE IF 2 * r < q THEN FALSE
                ELSE (down \div q) % 2 = 1
        l    == IF up THEN down + q ELSE down
    IN  IF r = 0 THEN a
        ELSE IF l >= B THEN <<a[1] + 1, l - B>> ELSE <<a[1], l>>

FRound(a) == IF FIsNeg(a) THEN FNeg(FRoundPos(FNeg(a))) ELSE FRoundPos(a)

\* The float operators a + b and a - b.
FAdd(a, b) == FRound(FSum(a, b))
FSub(a, b) == FRound(FSum(a, FNeg(b)))

\* C's fmod(a, w) for w > 0: exact, with the sign of a.
RECURSIVE FFmod(_, _)
FFmod(a, w) ==
    IF FIsNeg(a) THEN FNeg(FFmod(FNeg(a), w))
    ELSE IF FLess(a, w) THEN a
    ELSE FFmod(FSum(a, FNeg(w)), w)

\* Python's float a % w for w > 0 (floatobject.c, float_rem): fmod, and a
\* negative remainder has w added to it, which is a rounded float addition.
FMod(a, w) ==
    LET m == FFmod(a, w)
    IN  IF FIsNeg(m) THEN FAdd(m, w) ELSE m

\* A double in angle units, at the nearest lattice point: the argument the
\* model hands to Sin and Cos.  hi counts 2^-27 rad; DELTA_ANGLE radians
\* are 175690.595 of them.
RAD27_PER_DELTA == 175691
AngleUnits(a) == ((a[1] + RAD27_PER_DELTA \div 2) \div RAD27_PER_DELTA) * DELTA_ANGLE

\* The double of lattice point n.
LatticeAngle(n) == <<n * RAD27_PER_DELTA, 0>>

---------------------------------------------------------------------------
(* map.py: the input array and Map.get_map. *)

\* map.py: mini_map, with 0 for the empty marker _ = False.
MINI_MAP == <<
    <<15, 15, 15, 15, 15, 15, 15, 15, 15, 15, 15, 15, 15, 15, 15, 15>>,
    <<15, 0, 0, 0, 0, 0, 0, 0, 0, 0, 0, 0, 0, 0, 0, 15>>,
    <<15, 0, 9, 9, 0, 0, 0, 0, 0, 0, 0, 0, 10, 10, 0, 15>>,
    <<15, 0, 9, 0, 0, 0, 0, 0, 0, 0, 0, 0, 0, 10, 0, 15>>,
    <<15, 0, 0, 0, 0, 11, 11, 0, 0, 11, 11, 0, 0, 0, 0, 15>>,
    <<15, 0, 0, 0, 0, 11, 11, 0, 0, 11, 11, 0, 0, 0, 0, 15>>,
    <<15, 0, 0, 0, 0, 0, 0, 0, 0, 0, 0, 0, 0, 0, 0, 15>>,
    <<15, 17, 17, 0, 0, 0, 0, 0, 0, 0, 0, 0, 0, 17, 17, 15>>,
    <<15, 0, 0, 0, 0, 0, 0, 0, 0, 0, 0, 0, 0, 0, 0, 15>>,
    <<15, 0, 0, 0, 0, 1, 1, 0, 0, 1, 1, 0, 0, 0, 0, 15>>,
    <<15, 0, 0, 0, 0, 1, 0, 0, 0, 0, 1, 0, 0, 0, 0, 15>>,
    <<15, 0, 2, 2, 0, 0, 0, 0, 0, 0, 0, 0, 2, 2, 0, 15>>,
    <<15, 0, 2, 2, 0, 0, 0, 0, 0, 0, 0, 0, 2, 2, 0, 15>>,
    <<15, 0, 0, 0, 0, 0, 3, 3, 3, 3, 0, 0, 0, 0, 0, 15>>,
    <<15, 0, 0, 0, 0, 0, 0, 0, 0, 0, 0, 0, 0, 0, 0, 15>>,
    <<15, 18, 18, 0, 0, 0, 0, 0, 0, 0, 0, 0, 0, 18, 18, 15>>,
    <<15, 0, 0, 0, 0, 0, 17, 0, 0, 17, 0, 0, 0, 0, 0, 15>>,
    <<15, 0, 0, 0, 0, 0, 17, 0, 0, 17, 0, 0, 0, 0, 0, 15>>,
    <<15, 0, 0, 19, 19, 19, 19, 0, 0, 19, 19, 19, 19, 0, 0, 15>>,
    <<15, 0, 0, 0, 0, 0, 0, 0, 0, 0, 0, 0, 0, 0, 0, 15>>,
    <<15, 0, 0, 0, 0, 0, 0, 0, 0, 0, 0, 0, 0, 0, 0, 15>>,
    <<15, 19, 19, 0, 0, 0, 0, 0, 0, 0, 0, 0, 0, 19, 19, 15>>,
    <<15, 0, 0, 0, 0, 0, 19, 0, 0, 19, 0, 0, 0, 0, 0, 15>>,
    <<15, 0, 0, 0, 0, 0, 19, 0, 0, 19, 0, 0, 0, 0, 0, 15>>,
    <<15, 0, 0, 16, 16, 16, 16, 0, 0, 16, 16, 16, 16, 0, 0, 15>>,
    <<15, 0, 0, 16, 0, 0, 0, 0, 0, 0, 0, 0, 16, 0, 0, 15>>,
    <<15, 0, 0, 16, 0, 0, 0, 0, 0, 0, 0, 0, 16, 0, 0, 15>>,
    <<15, 0, 0, 16, 0, 0, 16, 16, 16, 16, 0, 0, 16, 0, 0, 15>>,
    <<15, 0, 0, 0, 0, 0, 16, 0, 0, 16, 0, 0, 0, 0, 0, 15>>,
    <<15, 0, 0, 0, 0, 0, 16, 0, 0, 16, 0, 0, 0, 0, 0, 15>>,
    <<15, 0, 0, 16, 0, 0, 16, 0, 0, 16, 0, 0, 16, 0, 0, 15>>,
    <<15, 0, 0, 16, 0, 0, 0, 0, 0, 0, 0, 0, 16, 0, 0, 15>>,
    <<15, 0, 0, 0, 0, 0, 0, 0, 0, 0, 0, 0, 0, 0, 0, 15>>,
    <<15, 0, 4, 4, 0, 0, 0, 0, 0, 0, 0, 0, 5, 5, 0, 15>>,
    <<15, 0, 4, 0, 0, 0, 0, 0, 0, 0, 0, 0, 0, 5, 0, 15>>,
    <<15, 0, 0, 0, 0, 6, 6, 0, 0, 6, 6, 0, 0, 0, 0, 15>>,
    <<15, 0, 0, 0, 0, 6, 0, 0, 0, 0, 6, 0, 0, 0, 0, 15>>,
    <<15, 0, 0, 0, 0, 0, 0, 0, 0, 0, 0, 0, 0, 0, 0, 15>>,
    <<15, 7, 7, 0, 0, 0, 0, 0, 0, 0, 0, 0, 0, 7, 7, 15>>,
    <<15, 0, 0, 0, 0, 0, 8, 0, 0, 8, 0, 0, 0, 0, 0, 15>>,
    <<15, 0, 0, 0, 0, 0, 8, 0, 0, 8, 0, 0, 0, 0, 0, 15>>,
    <<15, 0, 0, 12, 12, 12, 12, 0, 0, 12, 12, 12, 12, 0, 0, 15>>,
    <<15, 0, 0, 0, 0, 0, 0, 0, 0, 0, 0, 0, 0, 0, 0, 15>>,
    <<15, 0, 13, 13, 0, 0, 0, 0, 0, 0, 0, 0, 13, 13, 0, 15>>,
    <<15, 0, 13, 0, 0, 0, 0, 0, 0, 0, 0, 0, 0, 13, 0, 15>>,
    <<15, 0, 0, 0, 0, 14, 14, 0, 0, 14, 14, 0, 0, 0, 0, 15>>,
    <<15, 0, 0, 0, 0, 14, 0, 0, 0, 0, 14, 0, 0, 0, 0, 15>>,
    <<15, 0, 0, 0, 0, 0, 0, 0, 0, 0, 0, 0, 0, 0, 0, 15>>,
    <<15, 13, 13, 0, 0, 0, 0, 0, 0, 0, 0, 0, 0, 13, 13, 15>>,
    <<15, 0, 0, 0, 0, 0, 16, 0, 0, 16, 0, 0, 0, 0, 0, 15>>,
    <<15, 0, 0, 0, 0, 0, 16, 0, 0, 16, 0, 0, 0, 0, 0, 15>>,
    <<15, 0, 0, 19, 19, 19, 19, 0, 0, 19, 19, 19, 19, 0, 0, 15>>,
    <<15, 0, 0, 0, 0, 0, 0, 0, 0, 0, 0, 0, 0, 0, 0, 15>>,
    <<15, 0, 0, 0, 0, 0, 0, 0, 0, 0, 0, 0, 0, 0, 0, 15>>,
    <<15, 0, 0, 0, 0, 0, 0, 0, 0, 0, 0, 0, 0, 0, 0, 15>>,
    <<15, 0, 0, 0, 0, 0, 0, 0, 0, 0, 0, 0, 0, 0, 0, 15>>,
    <<15, 0, 0, 0, 0, 0, 0, 0, 0, 0, 0, 0, 0, 0, 0, 15>>,
    <<15, 0, 0, 0, 0, 0, 0, 0, 0, 0, 0, 0, 0, 0, 0, 15>>,
    <<15, 0, 0, 0, 0, 0, 0, 0, 0, 0, 0, 0, 0, 0, 0, 15>>,
    <<15, 0, 0, 0, 0, 0, 0, 0, 0, 0, 0, 0, 0, 0, 0, 15>>,
    <<15, 0, 0, 0, 0, 0, 0, 0, 0, 0, 0, 0, 0, 0, 0, 15>>,
    <<15, 0, 0, 0, 0, 0, 0, 0, 0, 0, 0, 0, 0, 0, 0, 15>>,
    <<15, 0, 0, 0, 0, 0, 0, 0, 0, 0, 0, 0, 0, 0, 0, 15>>,
    <<15, 15, 15, 15, 15, 15, 15, 15, 15, 15, 15, 15, 15, 15, 15, 15>>
>>

\* A 3x3 block whose border tiles are walls (distinct IDs) and whose centre
\* tile is empty.
BORDER_MAP == <<
    <<1, 2, 3>>,
    <<4, 0, 5>>,
    <<6, 7, 8>>
>>

\* An array with no wall at all.
OPEN_MAP == <<
    <<0, 0, 0>>,
    <<0, 0, 0>>,
    <<0, 0, 0>>
>>

\* The (col, row) pairs of array mm, 0-based as enumerate() counts them.
Cells(mm) ==
    {c \in (0 .. 15) \X (0 .. Len(mm) - 1) : c[1] < Len(mm[c[2] + 1])}

\* get_map with the key written (j, i): row and column swapped.
get_map_swapped(mm, wm) ==
    [c \in DOMAIN wm \cup {<<d[2], d[1]>> : d \in {e \in Cells(mm) : mm[e[2] + 1][e[1] + 1] # 0}} |->
        IF <<c[2], c[1]>> \in Cells(mm) /\ mm[c[1] + 1][c[2] + 1] # 0
        THEN mm[c[1] + 1][c[2] + 1]
        ELSE wm[c]]

\* Map.get_map: world_map[(i, j)] = value for every truthy value of row j,
\* column i, added to the entries wm that world_map already holds.
get_map(mm, wm) ==
    [c \in DOMAIN wm \cup {d \in Cells(mm) : mm[d[2] + 1][d[1] + 1] # 0} |->
        IF c \in Cells(mm) /\ mm[c[2] + 1][c[1] + 1] # 0
        THEN mm[c[2] + 1][c[1] + 1]
        ELSE wm[c]]

\* Map.__init__, first half: self.world_map = {}
EMPTY_MAP == [c \in {} |-> 0]

\* Map.__init__, second half: self.get_map()
MapInit ==
    /\ pc = "map"
    /\ world_map' = get_map(mini_map, world_map)
    /\ pc' = "ready"
    /\ UNCHANGED <<mini_map, x, y, angle, delta_time, frame, moved>>
    /\ UNCHANGED render_vars

---------------------------------------------------------------------------
(* player.py *)

\* Python's int() of a position.
PyInt(a) == TruncDiv(a, U)

\* check_wall finding no wall anywhere.
check_wall_open(cx, cy) == TRUE

\* Player.check_wall: TRUE when tile (cx, cy) is empty.
check_wall(cx, cy) == <<cx, cy>> \notin DOMAIN world_map

\* check_wall_collision testing the tile the viewer stands on, not the tile
\* it moves to, on the y axis.
check_wall_collision_stale_y(px, py, dx, dy) ==
    LET nx == IF check_wall(PyInt(px + dx), PyInt(py)) THEN px + dx ELSE px
        ny == IF check_wall(PyInt(nx), PyInt(py)) THEN py + dy ELSE py
    IN  <<nx, ny>>

\* check_wall_collision testing the y axis from the x the call started with.
check_wall_collision_old_x(px, py, dx, dy) ==
    LET nx == IF check_wall(PyInt(px + dx), PyInt(py)) THEN px + dx ELSE px
        ny == IF check_wall(PyInt(px), PyInt(py + dy)) THEN py + dy ELSE py
    IN  <<nx, ny>>

\* Player.check_wall_collision: the position after trying dx, then dy.
check_wall_collision(px, py, dx, dy) ==
    LET nx == IF check_wall(PyInt(px + dx), PyInt(py)) THEN px + dx ELSE px
        ny == IF check_wall(PyInt(nx), PyInt(py + dy)) THEN py + dy ELSE py
    IN  <<nx, ny>>

\* The angle after the arrow keys and the normalisation of Player.movement.
Rotate(a, left, right) ==
    LET a1 == IF left THEN FSub(a, PLAYER_ROT_SPEED) ELSE a
        a2 == IF right THEN FAdd(a1, PLAYER_ROT_SPEED) ELSE a1
    IN  FMod(a2, MATH_TAU)

\* The displacement (dx, dy) Player.movement adds up from the WASD keys.
Displacement(k, speed_sin, speed_cos) ==
    LET dx == (IF k.w THEN speed_cos ELSE 0) + (IF k.s THEN -speed_cos ELSE 0)
              + (IF k.a THEN speed_sin ELSE 0) + (IF k.d THEN -speed_sin ELSE 0)
        dy == (IF k.w THEN speed_sin ELSE 0) + (IF k.s THEN -speed_sin ELSE 0)
              + (IF k.a THEN -speed_cos ELSE 0) + (IF k.d THEN speed_cos ELSE 0)
    IN  <<dx, dy>>

\* pg.key.get_pressed(): any combination of the six keys.
Keys == [w : BOOLEAN, s : BOOLEAN, a : BOOLEAN, d : BOOLEAN,
         left : BOOLEAN, right : BOOLEAN]
RotKeys == {k \in Keys : ~k.w /\ ~k.s /\ ~k.a /\ ~k.d}

\* Player.movement, where pg.key.get_pressed() returns one of K.
movement(K) ==
    LET sin_a == Sin(AngleUnits(angle))
        cos_a == Cos(AngleUnits(angle))
        speed == PLAYER_SPEED * delta_time
        speed_sin == MulS(speed, sin_a)
        speed_cos == MulS(speed, cos_a)
    IN  \E k \in K :
           LET d == Displacement(k, speed_sin, speed_cos)
               p == check_wall_collision(x, y, d[1], d[2])
           IN  /\ x' = p[1]
               /\ y' = p[2]
               /\ angle' = Rotate(angle, k.left, k.right)
               /\ moved' = [dx |-> d[1], dy |-> d[2], x |-> x, y |-> y]

\* clock.tick(FPS): the milliseconds the last frame took.
DeltaTimes == {112, 400}

\* Game.update: Player.update, then delta_time = clock.tick(FPS).
Update(K, T, n) ==
    /\ pc = "ready"
    /\ frame < n
    /\ movement(K)
    /\ delta_time' \in T
    /\ frame' = frame + 1
    /\ UNCHANGED <<pc, mini_map, world_map>>
    /\ UNCHANGED render_vars

---------------------------------------------------------------------------
(* raycasting.py *)

\* settings.py: MAX_DEPTH = 30, FOG_START = 20, FOG_END = MAX_DEPTH, the
\* depths in 1/U tiles.
MAX_DEPTH == 30
FOG_START == 20 * U
FOG_END == MAX_DEPTH * U
\* settings.py: SCALE = WIDTH // NUM_RAYS, HALF_HEIGHT = HEIGHT // 2
SCALE == WIDTH \div NUM_RAYS
HALF_HEIGHT == HEIGHT \div 2
\* settings.py: SCREEN_DIST = HALF_WIDTH / tan(HALF_FOV) = 1385.640646 px,
\* here SCREEN_DIST * U in 1/100 px, the unit of a projected height.
SCREEN_DIST == 138564065

\* float("inf") and None.
INF == 2147483647
NONE == 0

\* ray_cast: the 0.0001 rad added to the first ray angle (0.993 angle units).
RAY_OFFSET == 1
\* ray_cast: the 1e-6 tiles taken off y_map and x_map, as the smallest
\* position the model has.
EPS == 1

\* The float division a / b, rounded to nearest, for b # 0.
FDiv(a, b) ==
    IF (a >= 0) = (b > 0) THEN RoundDiv(Abs(a), Abs(b)) ELSE -RoundDiv(Abs(a), Abs(b))

\* The loop of a gridline scan without the wall test on its first crossing.
RECURSIVE scan_after_first(_, _, _, _, _, _, _)
scan_after_first(px, py, d, dx, dy, delta_depth, i) ==
    IF i = MAX_DEPTH
    THEN [found |-> FALSE, x |-> px, y |-> py, depth |-> d, tile |-> <<0, 0>>]
    ELSE IF i > 0 /\ <<PyInt(px), PyInt(py)>> \in DOMAIN world_map
         THEN [found |-> TRUE, x |-> px, y |-> py, depth |-> d,
               tile |-> <<PyInt(px), PyInt(py)>>]
         ELSE scan_after_first(px + dx, py + dy, d + delta_depth, dx, dy,
                               delta_depth, i + 1)

\* The loop "for i in range(MAX_DEPTH)" of one gridline scan, from its i-th
\* pass on: the crossing (px, py) at depth d, and the steps to the next one.
\* The tile is None when the loop ends without a break.
RECURSIVE scan(_, _, _, _, _, _, _)
scan(px, py, d, dx, dy, delta_depth, i) ==
    IF i = MAX_DEPTH
    THEN [found |-> FALSE, x |-> px, y |-> py, depth |-> d, tile |-> <<0, 0>>]
    ELSE IF <<PyInt(px), PyInt(py)>> \in DOMAIN world_map
         THEN [found |-> TRUE, x |-> px, y |-> py, depth |-> d,
               tile |-> <<PyInt(px), PyInt(py)>>]
         ELSE scan(px + dx, py + dy, d + delta_depth, dx, dy, delta_depth, i + 1)

\* ray_cast, "Horizontals": the scan of the horizontal gridlines for a ray
\* of sine sin_a and cosine cos_a from (ox, oy) in tile row y_map.
horizontals(ox, oy, y_map, sin_a, cos_a) ==
    LET y_hor       == IF sin_a > 0 THEN (y_map + 1) * U ELSE y_map * U - EPS
        dy          == IF sin_a > 0 THEN U ELSE -U
        depth_hor   == FDiv((y_hor - oy) * S, sin_a)
        x_hor       == ox + MulS(depth_hor, cos_a)
        delta_depth == FDiv(dy * S, sin_a)
        dx          == MulS(delta_depth, cos_a)
    IN  scan(x_hor, y_hor, depth_hor, dx, dy, delta_depth, 0)

\* verticals with the sine and the cosine in each other's place.
verticals_by_sine(ox, oy, x_map, sin_a, cos_a) ==
    LET x_vert      == IF cos_a > 0 THEN (x_map + 1) * U ELSE x_map * U - EPS
        dx          == IF cos_a > 0 THEN U ELSE -U
        depth_vert  == FDiv((x_vert - ox) * S, sin_a)
        y_vert      == oy + MulS(depth_vert, cos_a)
        delta_depth == FDiv(dx * S, sin_a)
        dy          == MulS(delta_depth, cos_a)
    IN  scan(x_vert, y_vert, depth_vert, dx, dy, delta_depth, 0)

\* ray_cast, "Verticals": the scan of the vertical gridlines.
verticals(ox, oy, x_map, sin_a, cos_a) ==
    LET x_vert      == IF cos_a > 0 THEN (x_map + 1) * U ELSE x_map * U - EPS
        dx          == IF cos_a > 0 THEN U ELSE -U
        depth_vert  == FDiv((x_vert - ox) * S, cos_a)
        y_vert      == oy + MulS(depth_vert, sin_a)
        delta_depth == FDiv(dx * S, cos_a)
        dy          == MulS(delta_depth, sin_a)
    IN  scan(x_vert, y_vert, depth_vert, dx, dy, delta_depth, 0)

\* The record ray_cast appends for a ray without a wall.
NoHit == [depth |-> INF, proj_height |-> 0, texture |-> NONE, offset |-> 0]

\* The record of a wall at uncorrected depth d, for a ray at ray_angle.
Hit(d, texture, offset, ray_angle) ==
    LET depth == MulS(d, Cos(AngleUnits(angle) - ray_angle))
    IN  [depth |-> depth,
         proj_height |-> (SCREEN_DIST * 10) \div (depth * 10 + 1),
         texture |-> texture,
         offset |-> offset]

\* The first ray angle without the 0.0001 rad.
first_ray_angle_exact == AngleUnits(angle) - HALF_FOV

\* The first ray angle a whole FOV, not half of it, before the viewer's.
first_ray_angle_fov == AngleUnits(angle) - FOV + RAY_OFFSET

\* The first ray angle of ray_cast, and the angle of ray index ray.
first_ray_angle == AngleUnits(angle) - HALF_FOV + RAY_OFFSET
ray_angle_of(ray) == first_ray_angle + ray * DELTA_ANGLE

\* cast_ray recording the wall ID of the scan it did not choose.
cast_ray_other_texture(ray_angle, texture_vert, texture_hor) ==
    LET sin_a == Sin(ray_angle)
        cos_a == Cos(ray_angle)
        hor   == horizontals(x, y, PyInt(y), sin_a, cos_a)
        vert  == verticals(x, y, PyInt(x), sin_a, cos_a)
        depth_hor  == IF hor.found THEN hor.depth ELSE INF
        th         == IF hor.found THEN world_map[hor.tile] ELSE texture_hor
        depth_vert == IF vert.found THEN vert.depth ELSE INF
        tv         == IF vert.found THEN world_map[vert.tile] ELSE texture_vert
        use_vert   == depth_vert < depth_hor
        depth      == IF use_vert THEN depth_vert ELSE depth_hor
        texture    == IF use_vert THEN th ELSE tv
        offset     == IF use_vert
                      THEN (IF cos_a > 0 THEN vert.y % U ELSE U - (vert.y % U))
                      ELSE (IF sin_a > 0 THEN U - (hor.x % U) ELSE hor.x % U)
    IN  [texture_vert |-> tv,
         texture_hor  |-> th,
         raw          |-> depth,
         record       |-> IF depth = INF \/ texture = NONE
                          THEN NoHit
                          ELSE Hit(depth, texture, offset, ray_angle)]

\* One pass of the loop "for ray in range(NUM_RAYS)" of ray_cast, entered
\* with the textures the previous pass left: the values it ends with.
cast_ray(ray_angle, texture_vert, texture_hor) ==
    LET sin_a == Sin(ray_angle)
        cos_a == Cos(ray_angle)
        hor   == horizontals(x, y, PyInt(y), sin_a, cos_a)
        vert  == verticals(x, y, PyInt(x), sin_a, cos_a)
        depth_hor  == IF hor.found THEN hor.depth ELSE INF
        th         == IF hor.found THEN world_map[hor.tile] ELSE NONE
        depth_vert == IF vert.found THEN vert.depth ELSE INF
        tv         == IF vert.found THEN world_map[vert.tile] ELSE NONE
        use_vert   == depth_vert < depth_hor
        depth      == IF use_vert THEN depth_vert ELSE depth_hor
        texture    == IF use_vert THEN tv ELSE th
        offset     == IF use_vert
                      THEN (IF cos_a > 0 THEN vert.y % U ELSE U - (vert.y % U))
                      ELSE (IF sin_a > 0 THEN U - (hor.x % U) ELSE hor.x % U)
    IN  [texture_vert |-> tv,
         texture_hor  |-> th,
         raw          |-> depth,
         record       |-> IF depth = INF \/ texture = NONE
                          THEN NoHit
                          ELSE Hit(depth, texture, offset, ray_angle)]

\* The loop "for ray in range(NUM_RAYS)" of ray_cast: the record each pass
\* appends.  A pass reads neither the textures nor anything else the passes
\* before it wrote, apart from ray_angle.
ray_loop == [r \in 1 .. NUM_RAYS |-> cast_ray(ray_angle_of(r - 1), 1, 1).record]

\* ray_cast appending nothing for a ray without a wall.
ray_cast_omitting == SelectSeq(ray_loop, LAMBDA v : v # NoHit)

\* RayCasting.ray_cast: the new ray_casting_result.
ray_cast == ray_loop

\* The alpha of the fog surface of a wall column at depth d; NO_FOG when
\* get_objects_to_render blits none.
NO_FOG == -1

\* fog_alpha without the min(1.0, ...).
fog_alpha_unclamped(d) ==
    IF d > FOG_START
    THEN (255 * ((d - FOG_START) \div 10)) \div ((FOG_END - FOG_START) \div 10)
    ELSE NO_FOG

fog_alpha(d) ==
    IF d > FOG_START
    THEN LET num == d - FOG_START
             den == FOG_END - FOG_START
         IN  IF num >= den THEN 255 ELSE (255 * num) \div den
    ELSE NO_FOG

\* The draw item of the record v of ray index ray.
wall_item(ray, v) ==
    [depth |-> v.depth,
     kind  |-> "wall",
     id    |-> v.texture,
     fog   |-> fog_alpha(v.depth),
     pos   |-> IF v.proj_height < HEIGHT * 100
               THEN <<ray * SCALE, HALF_HEIGHT - v.proj_height \div 200>>
               ELSE <<ray * SCALE, 0>>]

\* get_objects_to_render without the skip of the empty results.
get_objects_to_render_all(rcr) ==
    [k \in 1 .. Len(rcr) |-> wall_item(k - 1, rcr[k])]

\* get_objects_to_render without "self.objects_to_render = []": the items
\* are appended to the list of the frame before.
get_objects_to_render_uncleared(rcr) ==
    LET values == [r \in 1 .. Len(rcr) |-> [ray |-> r - 1, v |-> rcr[r]]]
        kept   == SelectSeq(values, LAMBDA e : ~(e.v.texture = NONE \/ e.v.depth = INF))
    IN  objects_to_render \o [k \in 1 .. Len(kept) |-> wall_item(kept[k].ray, kept[k].v)]

\* RayCasting.get_objects_to_render on the records rcr: the new
\* objects_to_render, one item per record that is no empty result.
get_objects_to_render(rcr) ==
    LET values == [r \in 1 .. Len(rcr) |-> [ray |-> r - 1, v |-> rcr[r]]]
        kept   == SelectSeq(values, LAMBDA e : ~(e.v.texture = NONE \/ e.v.depth = INF))
    IN  [k \in 1 .. Len(kept) |-> wall_item(kept[k].ray, kept[k].v)]

\* ray_cast divides by sin_a and by cos_a: a ZeroDivisionError is raised
\* when a ray has one of them equal to 0.
ZeroDivisionError ==
    \E ray \in 0 .. NUM_RAYS - 1 :
        Sin(ray_angle_of(ray)) = 0 \/ Cos(ray_angle_of(ray)) = 0

\* RayCasting.update: ray_cast, then get_objects_to_render; an error raised
\* by ray_cast ends the program.
RayCastingUpdate(from, to) ==
    /\ pc = from
    /\ IF ZeroDivisionError
       THEN /\ pc' = "raised"
            /\ UNCHANGED <<ray_casting_result, objects_to_render>>
       ELSE /\ ray_casting_result' = ray_cast
            /\ objects_to_render' = get_objects_to_render(ray_casting_result')
            /\ pc' = to
    /\ UNCHANGED <<sprite_list, screen, ticks>>
    /\ UNCHANGED world_vars

---------------------------------------------------------------------------
(* sprite_object.py, object_handler.py *)

\* Frames of an animation, as get_images loads them: images 0 .. n - 1.
MaxImages == 4
\* AnimatedSprite.__init__: animation_time = 120 ms.
ANIMATION_TIME == 120

\* The sprites of ObjectHandler.__init__: a candelabra (SpriteObject) and a
\* green light (AnimatedSprite), both at (1.5, 5).  IMAGE_HALF_WIDTH is half
\* the width of the image file; image is the frame shown, images the deque
\* of frames; advances counts the rotations of the deque.
SPRITES == <<[x |-> 1500, y |-> 5000, IMAGE_HALF_WIDTH |-> 64,
              animated |-> FALSE, image |-> 0, images |-> <<0>>,
              animation_time |-> 0, animation_time_prev |-> 0,
              animation_trigger |-> FALSE, advances |-> 0],
             [x |-> 1500, y |-> 5000, IMAGE_HALF_WIDTH |-> 128,
              animated |-> TRUE, image |-> 0,
              images |-> [i \in 1 .. MaxImages |-> i - 1],
              animation_time |-> ANIMATION_TIME, animation_time_prev |-> 0,
              animation_trigger |-> FALSE, advances |-> 0]>>

\* math.hypot: the integer square root of n, rounded down, by bisection
\* between lo and hi (lo * lo <= n < hi * hi).
RECURSIVE isqrt(_, _, _)
isqrt(n, lo, hi) ==
    IF hi - lo <= 1 THEN lo
    ELSE LET mid == (lo + hi) \div 2
         IN  IF mid * mid <= n THEN isqrt(n, mid, hi) ELSE isqrt(n, lo, mid)

\* math.hypot(dx, dy) in 1/U tiles; beyond 32 tiles in 2/U tiles, to stay
\* in 32 bits.
hypot(dx, dy) ==
    IF Abs(dx) <= 32 * U /\ Abs(dy) <= 32 * U
    THEN isqrt(dx * dx + dy * dy, 0, 46341)
    ELSE 2 * isqrt((dx \div 2) * (dx \div 2) + (dy \div 2) * (dy \div 2), 0, 46341)

\* The angle in lo .. hi (angle units, within the first quadrant) whose
\* direction is nearest to (ax, ay), ax >= 0, ay >= 0, not both 0: by
\* bisection on the sign of the cross product.
RECURSIVE bearing(_, _, _, _)
bearing(ax, ay, lo, hi) ==
    IF hi - lo <= 1
    THEN IF Abs(MulS(ax, Sin(lo)) - MulS(ay, Cos(lo)))
              <= Abs(MulS(ax, Sin(hi)) - MulS(ay, Cos(hi)))
         THEN lo ELSE hi
    ELSE LET mid == (lo + hi) \div 2
         IN  IF MulS(ax, Sin(mid)) < MulS(ay, Cos(mid))
             THEN bearing(ax, ay, mid, hi)
             ELSE bearing(ax, ay, lo, mid)

\* math.atan2(dy, dx) in angle units, in -TAU/2 .. TAU/2.
atan2(dy, dx) ==
    LET a == IF dx = 0 /\ dy = 0 THEN 0
             ELSE IF dx = 0 THEN TAU \div 4
             ELSE IF dy = 0 THEN 0
             ELSE bearing(Abs(dx), Abs(dy), 0, TAU \div 4)
        b == IF dx >= 0 THEN a ELSE TAU \div 2 - a
    IN  IF dy >= 0 THEN b ELSE -b

\* get_sprite without the test norm_dist > 1.0.
get_sprite_any_distance(s) ==
    LET dx        == s.x - x
        dy        == s.y - y
        theta     == atan2(dy, dx)
        a         == AngleUnits(angle)
        delta0    == theta - a
        delta     == IF (dx > 0 /\ a > TAU \div 2) \/ (dx < 0 /\ dy < 0)
                     THEN delta0 + TAU ELSE delta0
        screen_x  == (HALF_NUM_RAYS * DELTA_ANGLE + delta) * SCALE
        dist      == hypot(dx, dy)
        norm_dist == MulS(dist, Cos(delta))
    IN  [delta |-> delta, screen_x |-> screen_x, dist |-> dist,
         norm_dist |-> norm_dist,
         projected |-> /\ -s.IMAGE_HALF_WIDTH * DELTA_ANGLE < screen_x
                       /\ screen_x < (WIDTH + s.IMAGE_HALF_WIDTH) * DELTA_ANGLE]

\* SpriteObject.get_sprite for the sprite s: delta, screen_x (in 1/13 px),
\* norm_dist and whether get_sprite_projection is called.
get_sprite(s) ==
    LET dx        == s.x - x
        dy        == s.y - y
        theta     == atan2(dy, dx)
        a         == AngleUnits(angle)
        delta0    == theta - a
        delta     == IF (dx > 0 /\ a > TAU \div 2) \/ (dx < 0 /\ dy < 0)
                     THEN delta0 + TAU ELSE delta0
        screen_x  == (HALF_NUM_RAYS * DELTA_ANGLE + delta) * SCALE
        dist      == hypot(dx, dy)
        norm_dist == MulS(dist, Cos(delta))
    IN  [delta |-> delta, screen_x |-> screen_x, dist |-> dist,
         norm_dist |-> norm_dist,
         projected |-> /\ -s.IMAGE_HALF_WIDTH * DELTA_ANGLE < screen_x
                       /\ screen_x < (WIDTH + s.IMAGE_HALF_WIDTH) * DELTA_ANGLE
                       /\ norm_dist > U]

\* SpriteObject.get_sprite_projection: the draw item of sprite number n.
sprite_item(n, g) ==
    [depth |-> g.norm_dist,
     kind  |-> "sprite",
     id    |-> n,
     fog   |-> NO_FOG,
     pos   |-> <<g.screen_x \div DELTA_ANGLE, HALF_HEIGHT>>]

\* ObjectHandler.update from sprite number n on: objects_to_render after
\* the update call of every sprite of sprite_list.
RECURSIVE sprites_update(_, _)
sprites_update(n, items) ==
    IF n > Len(sprite_list) THEN items
    ELSE LET g == get_sprite(sprite_list[n])
         IN  sprites_update(n + 1, IF g.projected THEN Append(items, sprite_item(n, g))
                                   ELSE items)

\* check_animation_time with >= for >.
check_animation_time_at_limit(s, time_now) ==
    IF time_now - s.animation_time_prev >= s.animation_time
    THEN [s EXCEPT !.animation_time_prev = time_now, !.animation_trigger = TRUE]
    ELSE [s EXCEPT !.animation_trigger = FALSE]

\* AnimatedSprite.check_animation_time, reading time_now from the clock.
check_animation_time(s, time_now) ==
    IF time_now - s.animation_time_prev > s.animation_time
    THEN [s EXCEPT !.animation_time_prev = time_now, !.animation_trigger = TRUE]
    ELSE [s EXCEPT !.animation_trigger = FALSE]

\* deque.rotate(-1): the head goes to the tail.
rotate(images) == IF images = << >> THEN images ELSE Append(Tail(images), Head(images))

\* AnimatedSprite.animate
animate(s) ==
    IF s.animation_trigger
    THEN [s EXCEPT !.images = rotate(s.images),
                   !.image = rotate(s.images)[1],
                   !.advances = s.advances + 1]
    ELSE s

\* The fields of sprite s after its update call: SpriteObject.update leaves
\* them, AnimatedSprite.update runs check_animation_time and animate.
sprite_update(s, time_now) ==
    IF s.animated THEN animate(check_animation_time(s, time_now)) ELSE s

\* ObjectHandler.update, the clock having advanced by one of E ms since
\* the update before.
ObjectHandlerUpdate(from, to, E) ==
    /\ pc = from
    /\ objects_to_render' = sprites_update(1, objects_to_render)
    /\ \E e \in E :
          /\ ticks' = ticks + e
          /\ sprite_list' = [n \in 1 .. Len(sprite_list) |->
                               sprite_update(sprite_list[n], ticks')]
    /\ pc' = to
    /\ UNCHANGED <<ray_casting_result, screen>>
    /\ UNCHANGED world_vars

---------------------------------------------------------------------------
(* object_renderer.py *)

\* sorted without reverse=True: by increasing depth.
sorted_plain(items) ==
    LET order == SortSeq([i \in 1 .. Len(items) |-> i],
                         LAMBDA i, j : \/ items[i].depth < items[j].depth
                                       \/ (items[i].depth = items[j].depth /\ i < j))
    IN  [k \in 1 .. Len(items) |-> items[order[k]]]

\* sorted(items, key=lambda t: t[0], reverse=True): by decreasing depth,
\* items of equal depth in the order they have in the list.
sorted_reverse(items) ==
    LET order == SortSeq([i \in 1 .. Len(items) |-> i],
                         LAMBDA i, j : \/ items[i].depth > items[j].depth
                                       \/ (items[i].depth = items[j].depth /\ i < j))
    IN  [k \in 1 .. Len(items) |-> items[order[k]]]

\* ObjectRenderer.render_game_objects: the blits, in order.
render_game_objects(from, to) ==
    /\ pc = from
    /\ screen' = sorted_reverse(objects_to_render)
    /\ pc' = to
    /\ UNCHANGED <<ray_casting_result, objects_to_render, sprite_list, ticks>>
    /\ UNCHANGED world_vars

---------------------------------------------------------------------------
(* The specifications. *)

\* Bearings of the viewer at the start, as lattice points.
StartAngles == {LatticeAngle(n) : n \in {0, 2900}}
\* Where the viewer stands at the start, per input array.
StartPosition(mm) == IF mm = MINI_MAP THEN PLAYER_POS ELSE <<1500, 1500>>
StartMaps == {MINI_MAP, BORDER_MAP}

\* The game as constructed, about to run the call named at: the Player at
\* position p with bearing a, on the Map built from array mm.
Constructed(at, mm, p, a) ==
    /\ pc = at
    /\ mini_map = mm
    /\ world_map = get_map(mm, EMPTY_MAP)
    /\ x = p[1]
    /\ y = p[2]
    /\ angle = a
    /\ frame = 0
    /\ moved = [dx |-> 0, dy |-> 0, x |-> p[1], y |-> p[2]]
    /\ ray_casting_result = << >>
    /\ objects_to_render = << >>
    /\ sprite_list = SPRITES
    /\ screen = << >>
    /\ ticks = 0

\* Game.__init__ and new_game: the map is built and the viewer stands on an
\* empty tile.
Init ==
    /\ \E mm \in StartMaps, a \in StartAngles :
          Constructed("ready", mm, StartPosition(mm), a)
    /\ delta_time = 112

Next == Update(Keys, DeltaTimes, MaxFrames)

Spec == Init /\ [][Next]_vars

\* The viewer walking on the shipped map with frame times that keep
\* PLAYER_SPEED * delta_time below one tile (0.448, 0.704 and 0.8 tiles),
\* from the start pose and from spots next to an inner wall and to the
\* border, under the WASD keys.
MaxWalkFrames == 2
WalkTimes == {112, 176, 200}
WalkKeys == {k \in Keys : ~k.left /\ ~k.right}
WalkPoses == {[pos |-> PLAYER_POS,        angle |-> 0],
              [pos |-> <<1500, 6900>>,    angle |-> QUARTER \div 2],
              [pos |-> <<14900, 6500>>,   angle |-> 7 * (QUARTER \div 2)],
              [pos |-> <<4400, 3600>>,    angle |-> 2900]}
InitWalk ==
    /\ \E p \in WalkPoses :
          Constructed("ready", MINI_MAP, p.pos, LatticeAngle(p.angle))
    /\ delta_time \in WalkTimes

NextWalk == Update(WalkKeys, WalkTimes, MaxWalkFrames)

SpecWalk == InitWalk /\ [][NextWalk]_vars

\* The viewer as constructed, turned by the arrow keys alone.
InitRot ==
    /\ Constructed("ready", MINI_MAP, PLAYER_POS, FZERO)
    /\ delta_time = 1

NextRot == Update(RotKeys, {16}, MaxRotFrames)

SpecRot == InitRot /\ [][NextRot]_vars

\* Map.__init__ on an input array: world_map = {}, then get_map().
WallIds == 0 .. 2
RECURSIVE Rows(_, _)
Rows(n, c) == IF n = 0 THEN {<< >>}
              ELSE {Append(r, row) : r \in Rows(n - 1, c), row \in [1 .. c -> WallIds]}
SmallArrays == UNION {Rows(n, c) : n \in 1 .. MaxRows, c \in 1 .. MaxCols}

InitMap ==
    /\ pc = "map"
    /\ mini_map \in SmallArrays \cup {MINI_MAP, BORDER_MAP, OPEN_MAP}
    /\ world_map = EMPTY_MAP
    /\ x = PLAYER_POS[1]
    /\ y = PLAYER_POS[2]
    /\ angle = FZERO
    /\ delta_time = 1
    /\ frame = 0
    /\ moved = [dx |-> 0, dy |-> 0, x |-> x, y |-> y]
    /\ ray_casting_result = << >>
    /\ objects_to_render = << >>
    /\ sprite_list = << >>
    /\ screen = << >>
    /\ ticks = 0

NextMap == MapInit

SpecMap == InitMap /\ [][NextMap]_vars

\* The keys held during the frames of SpecRay: forward, or turn right.
RayKeys == {k \in Keys : ~k.s /\ ~k.a /\ ~k.d /\ ~k.left /\ (k.w # k.right)}
\* The poses SpecRay starts from: the centre of the walled block, of the open
\* array, the shipped start, the far hall of the shipped map looking up
\* its length, a spot of the start room that faces the sprites, and the
\* shipped start turned so that the first ray runs along the x axis.
RayPoses == {[map |-> BORDER_MAP, pos |-> <<1500, 1500>>,  angle |-> 0],
             [map |-> MINI_MAP,   pos |-> PLAYER_POS,
              angle |-> 2 * QUARTER + HALF_FOV \div DELTA_ANGLE],
             [map |-> OPEN_MAP,   pos |-> <<1500, 1500>>,  angle |-> 0],
             [map |-> MINI_MAP,   pos |-> PLAYER_POS,      angle |-> 0],
             [map |-> MINI_MAP,   pos |-> <<7500, 62500>>, angle |-> 3 * QUARTER],
             [map |-> MINI_MAP,   pos |-> <<3500, 6000>>,  angle |-> 2 * QUARTER]}

\* The first frame starts at the ray caster, with no key held before it.
InitRay ==
    /\ \E p \in RayPoses : Constructed("cast", p.map, p.pos, LatticeAngle(p.angle))
    /\ delta_time = 112

\* Game.update of a frame that the ray caster follows.
PlayerFrame ==
    /\ pc = "ready"
    /\ frame < MaxRayFrames
    /\ movement(RayKeys)
    /\ delta_time' \in {112}
    /\ frame' = frame + 1
    /\ pc' = "cast"
    /\ UNCHANGED <<mini_map, world_map>>
    /\ UNCHANGED render_vars

\* A frame of the game: the viewer, the ray caster, the sprites, the
\* compositor, in the order of the data flow.
NextRay ==
    \/ PlayerFrame
    \/ RayCastingUpdate("cast", "sprites")
    \/ ObjectHandlerUpdate("sprites", "draw", {delta_time})
    \/ render_game_objects("draw", "ready")

SpecRay == InitRay /\ [][NextRay]_vars

\* ObjectHandler.update alone, for viewers of the start room of the shipped
\* map at MaxSpriteAngles bearings spread over the turn.
SpritePositions == {PLAYER_POS, <<1500, 4800>>, <<2600, 5000>>, <<3500, 5600>>,
                    <<1200, 6300>>, <<3500, 3500>>, <<1500, 6300>>}
InitSprite ==
    /\ \E p \in SpritePositions, n \in 0 .. MaxSpriteAngles - 1 :
          Constructed("sprites", MINI_MAP, p,
                      LatticeAngle(n * (LATTICE \div MaxSpriteAngles)))
    /\ delta_time = 112

NextSprite == ObjectHandlerUpdate("sprites", "draw", {delta_time})

SpecSprite == InitSprite /\ [][NextSprite]_vars

\* ObjectHandler.update tick after tick, for a viewer on the sprites and
\* a viewer that sees them, until the clock reads MaxAnimTicks.
MaxAnimTicks == 900
\* The ms between two ticks: below, at and just above animation_time, and
\* several times it.
AnimElapsed == {60, ANIMATION_TIME, ANIMATION_TIME + 1, 400}
InitAnim ==
    /\ \/ Constructed("sprites", MINI_MAP, PLAYER_POS, FZERO)
       \/ Constructed("sprites", MINI_MAP, <<3500, 6000>>, LatticeAngle(2 * QUARTER))
    /\ delta_time = 1

NextAnim ==
    /\ ticks < MaxAnimTicks
    /\ ObjectHandlerUpdate("sprites", "sprites", AnimElapsed)

SpecAnim == InitAnim /\ [][NextAnim]_vars

---------------------------------------------------------------------------
(* The claims. *)

Floor(a) == a \div U

\* C1: after every Player.movement call, from a start on an empty tile, the
\* tile (floor(x), floor(y)) of the viewer is not a key of world_map.
C1_CollisionInvariant == <<Floor(x), Floor(y)>> \notin DOMAIN world_map

\* A movement call whose x displacement was refused by a wall while its y
\* displacement was applied.
C1_Witness ==
    /\ frame > 0
    /\ moved.dx # 0
    /\ x = moved.x
    /\ y # moved.y
    /\ <<PyInt(moved.x + moved.dx), PyInt(moved.y)>> \in DOMAIN world_map

\* C2: after every Player.movement call the viewer angle satisfies
\* 0 <= angle < 2*pi (math.tau).
C2_AngleNormalized == ~FIsNeg(angle) /\ FLess(angle, MATH_TAU)

\* C3: after Map.get_map, (col, row) is a key of world_map with value v
\* exactly when row and col are inside mini_map and mini_map[row][col] = v is
\* truthy; every other coordinate is absent and check_wall reports it empty.
C3_GridInvariant ==
    pc = "ready" =>
        /\ \A col \in -1 .. 16, row \in -1 .. Len(mini_map) :
              LET inside == /\ row \in 0 .. Len(mini_map) - 1
                            /\ col \in 0 .. Len(mini_map[row + 1]) - 1
                  v == IF inside THEN mini_map[row + 1][col + 1] ELSE 0
              IN  IF v # 0
                  THEN /\ <<col, row>> \in DOMAIN world_map
                       /\ world_map[<<col, row>>] = v
                       /\ ~check_wall(col, row)
                  ELSE /\ <<col, row>> \notin DOMAIN world_map
                       /\ check_wall(col, row)
        /\ \A c \in DOMAIN world_map :
              c[1] \in 0 .. 15 /\ c[2] \in 0 .. Len(mini_map) - 1

\* The shipped array after get_map: a wall of ID 17 at column 1 of row 7,
\* nothing at column 7 of row 1, nothing outside the array.
C3_Witness ==
    /\ pc = "ready"
    /\ mini_map = MINI_MAP
    /\ <<1, 7>> \in DOMAIN world_map
    /\ world_map[<<1, 7>>] = 17
    /\ <<7, 1>> \notin DOMAIN world_map
    /\ <<16, 0>> \notin DOMAIN world_map

\* The states between RayCasting.update and the next Player.update: the
\* records and the wall items are those of the pose the state holds.
AfterCast == pc \in {"sprites", "draw", "ready"} /\ Len(ray_casting_result) = NUM_RAYS

WallItems == {i \in 1 .. Len(objects_to_render) : objects_to_render[i].kind = "wall"}
SpriteItems == {i \in 1 .. Len(objects_to_render) : objects_to_render[i].kind = "sprite"}

\* C4: after every ray_cast call ray_casting_result holds exactly NUM_RAYS
\* records, the record at index r being that of the ray of index r for the
\* pose of this frame; a ray without a wall has the record
\* (infinity, 0, None, 0) and every other record is a wall hit.
C4_OneRecordPerRay ==
    /\ IF pc = "cast" /\ frame = 0
       THEN ray_casting_result = << >>
       ELSE Len(ray_casting_result) = NUM_RAYS
    /\ \A r \in 1 .. Len(ray_casting_result) :
          \/ ray_casting_result[r] = NoHit
          \/ /\ ray_casting_result[r].texture # NONE
             /\ ray_casting_result[r].depth < INF
    /\ pc = "sprites" =>
          \A r \in 0 .. NUM_RAYS - 1 :
              ray_casting_result[r + 1] = cast_ray(ray_angle_of(r), 1, 1).record

\* The second ray_cast call of a run, with rays that hit a wall and rays
\* that hit none, after a first call whose records differ.
C4_Witness ==
    /\ pc = "sprites"
    /\ frame = 1
    /\ Len(ray_casting_result) = NUM_RAYS
    /\ \E r \in 1 .. NUM_RAYS : ray_casting_result[r] = NoHit
    /\ \E r \in 1 .. NUM_RAYS : ray_casting_result[r] # NoHit

\* C5: render_game_objects blits the items of objects_to_render, walls and
\* sprites alike, in non-increasing order of depth.
C5_BlitOrder ==
    /\ \A k \in 1 .. Len(screen) - 1 : screen[k].depth >= screen[k + 1].depth
    /\ pc = "ready" =>
          /\ Len(screen) = Len(objects_to_render)
          /\ {screen[k] : k \in 1 .. Len(screen)}
               = {objects_to_render[k] : k \in 1 .. Len(objects_to_render)}

\* A blit sequence with a sprite between a farther and a nearer wall column,
\* from a list that was not in that order.
C5_Witness ==
    /\ pc = "ready"
    /\ \E k \in 2 .. Len(screen) - 1 :
          /\ screen[k].kind = "sprite"
          /\ screen[1].kind = "wall" /\ screen[1].depth > screen[k].depth
          /\ screen[Len(screen)].kind = "wall"
          /\ screen[Len(screen)].depth < screen[k].depth
    /\ screen # objects_to_render

\* C6: on the 3x3 block with wall border, from (1.5, 1.5) at angle 0, the
\* record of the centre ray is a wall hit of corrected depth 0.5 with the
\* wall ID of tile (2, 1).
C6_CentreRay ==
    (AfterCast /\ mini_map = BORDER_MAP /\ x = 1500 /\ y = 1500 /\ angle = FZERO) =>
        /\ ray_casting_result[HALF_NUM_RAYS + 1].texture # NONE
        /\ ray_casting_result[HALF_NUM_RAYS + 1].depth = U \div 2
        /\ ray_casting_result[HALF_NUM_RAYS + 1].texture = world_map[<<2, 1>>]

\* The records of the cast from the centre of the walled block at angle 0.
C6_Witness ==
    /\ pc = "sprites"
    /\ mini_map = BORDER_MAP /\ x = 1500 /\ y = 1500 /\ angle = FZERO
    /\ Len(ray_casting_result) = NUM_RAYS
    /\ ray_casting_result[HALF_NUM_RAYS + 1].depth = 500

\* C7: with no wall within reach (an empty world_map) every record of
\* ray_cast is the no-hit record, and get_objects_to_render produces no
\* wall column; no wall column comes from a no-hit record.
C7_NoWallNoItem ==
    /\ (AfterCast /\ DOMAIN world_map = {}) =>
          /\ Len(ray_casting_result) = NUM_RAYS
          /\ \A r \in 1 .. NUM_RAYS : ray_casting_result[r] = NoHit
          /\ WallItems = {}
    /\ AfterCast =>
          Cardinality(WallItems)
            = Cardinality({r \in 1 .. NUM_RAYS : ray_casting_result[r] # NoHit})

\* The open array after a ray_cast and get_objects_to_render.
C7_Witness ==
    /\ pc = "sprites"
    /\ world_map = EMPTY_MAP
    /\ Len(ray_casting_result) = NUM_RAYS
    /\ ray_casting_result[1] = NoHit
    /\ objects_to_render = << >>

FogOf(i) == objects_to_render[i].fog
DepthOf(i) == objects_to_render[i].depth

\* C8 as stated: no fog up to FOG_START, alpha 255 from FOG_END, and in
\* between an alpha of exactly 255 * (d - FOG_START) / (FOG_END - FOG_START).
C8_FogExact ==
    \A i \in WallItems :
        /\ DepthOf(i) <= FOG_START => FogOf(i) = NO_FOG
        /\ DepthOf(i) >= FOG_END => FogOf(i) = 255
        /\ (FOG_START < DepthOf(i) /\ DepthOf(i) < FOG_END) =>
              FogOf(i) * (FOG_END - FOG_START) = 255 * (DepthOf(i) - FOG_START)

\* C8 (amended): no fog up to FOG_START, alpha 255 from FOG_END, in between
\* the alpha is 255 * (d - FOG_START) / (FOG_END - FOG_START) truncated to
\* an integer, and of two wall columns blitted one after the other the
\* deeper one has no less fog.
C8_FogTruncated ==
    /\ \A i \in WallItems :
          /\ DepthOf(i) <= FOG_START => FogOf(i) = NO_FOG
          /\ DepthOf(i) >= FOG_END => FogOf(i) = 255
          /\ (FOG_START < DepthOf(i) /\ DepthOf(i) < FOG_END) =>
                /\ FogOf(i) * (FOG_END - FOG_START) <= 255 * (DepthOf(i) - FOG_START)
                /\ 255 * (DepthOf(i) - FOG_START) < (FogOf(i) + 1) * (FOG_END - FOG_START)
    /\ \A k \in 1 .. Len(screen) - 1 :
          (screen[k].kind = "wall" /\ screen[k + 1].kind = "wall"
             /\ screen[k].depth >= screen[k + 1].depth)
          => screen[k].fog >= screen[k + 1].fog

\* Wall columns before the fog, in it (one with a fractional exact alpha)
\* and beyond FOG_END, in one list.
C8_Witness ==
    /\ \E i \in WallItems : DepthOf(i) <= FOG_START
    /\ \E i \in WallItems : DepthOf(i) >= FOG_END
    /\ \E i \in WallItems :
          /\ FOG_START < DepthOf(i) /\ DepthOf(i) < FOG_END
          /\ (255 * (DepthOf(i) - FOG_START)) % (FOG_END - FOG_START) # 0

\* C9: ObjectHandler.update appends no draw item for a sprite at the
\* viewer's position, whatever the viewer angle, and none for a sprite whose
\* normalized distance dist * cos(delta) is not above 1.0.
C9_SpriteExclusion ==
    pc = "draw" =>
        \A n \in 1 .. Len(sprite_list) :
            ((sprite_list[n].x = x /\ sprite_list[n].y = y)
               \/ get_sprite(sprite_list[n]).norm_dist <= U)
            => \A i \in SpriteItems : objects_to_render[i].id # n

\* The sprites updated for a viewer standing on them.
C9_Witness ==
    /\ pc = "draw"
    /\ sprite_list # << >>
    /\ sprite_list[1].x = x /\ sprite_list[1].y = y
    /\ angle # FZERO
    /\ SpriteItems = {}

AnimationStep(n) ==
    LET s == sprite_list[n]
        t == sprite_list'[n]
    IN  IF ticks' - s.animation_time_prev > s.animation_time
        THEN /\ t.images = Append(Tail(s.images), Head(s.images))
             /\ t.image = t.images[1]
             /\ t.animation_time_prev = ticks'
             /\ t.advances = s.advances + 1
        ELSE /\ t.images = s.images
             /\ t.image = s.image
             /\ t.animation_time_prev = s.animation_time_prev
             /\ t.advances = s.advances

\* C11: on each AnimatedSprite.update tick the deque of frames rotates by
\* exactly one position, the image becomes its new head and
\* animation_time_prev the current time when the time since the last advance
\* is strictly above animation_time, and nothing of the three changes
\* otherwise, whether or not the sprite gave a draw item; after len(images)
\* advances the deque is in its original order.
C11_AnimationTick ==
    [][\A n \in 1 .. Len(sprite_list) :
          sprite_list[n].animated =>
             /\ AnimationStep(n)
             /\ sprite_list'[n].advances % Len(sprite_list[n].images) = 0
                  => sprite_list'[n].images = SPRITES[n].images]_vars

\* An animated sprite that gave no draw item, with its deque once around
\* and one frame further.
C11_Witness ==
    /\ objects_to_render = << >>
    /\ ticks > 0
    /\ \E n \in 1 .. Len(sprite_list) :
          /\ sprite_list[n].animated
          /\ sprite_list[n].advances = Len(sprite_list[n].images) + 1
          /\ sprite_list[n].image = 1
          /\ sprite_list[n].animation_time_prev < ticks

signed_angle(d) ==
    LET m == d % TAU IN IF m > TAU \div 2 THEN m - TAU ELSE m

\* The signed bearing of the sprite s from the viewer's heading.
signed_bearing(s) == signed_angle(atan2(s.y - y, s.x - x) - AngleUnits(angle))

\* C13: for every sprite whose signed bearing from the viewer's heading is
\* within half the field of view and whose normalized distance is above 1,
\* get_sprite computes a delta equal to that bearing and a draw item of the
\* sprite is appended, also when dx or dy is exactly 0.
C13_DeltaIsBearing ==
    pc = "draw" =>
        \A n \in 1 .. Len(sprite_list) :
            LET s == sprite_list[n]
                t == signed_bearing(s)
            IN  (/\ s.x # x \/ s.y # y
                 /\ Abs(t) <= HALF_FOV
                 /\ MulS(hypot(s.x - x, s.y - y), Cos(t)) > U)
                => /\ get_sprite(s).delta = t
                   /\ \E i \in SpriteItems : objects_to_render[i].id = n

\* C14: a movement call that attempts (dx, dy) from (x, y) sets x to x + dx
\* exactly when the tile (int(x + dx), int(y)) is no wall, and then y to
\* y + dy exactly when the tile (int(x'), int(y + dy)), taken at the
\* updated x', is no wall; the angle of the call is the rotation of the old
\* angle by the arrow keys, whatever the collision test decided.
C14_AxesInOrder ==
    [][/\ moved'.x = x /\ moved'.y = y
       /\ x' = IF <<PyInt(x + moved'.dx), PyInt(y)>> \notin DOMAIN world_map
               THEN x + moved'.dx ELSE x
       /\ y' = IF <<PyInt(x'), PyInt(y + moved'.dy)>> \notin DOMAIN world_map
               THEN y + moved'.dy ELSE y
       /\ \E left, right \in BOOLEAN : angle' = Rotate(angle, left, right)]_vars

\* A movement call that slid along a wall: the y displacement was refused
\* by a wall while the x displacement was applied, and the tile tested for
\* y at the old x differs from the one tested at the new x.
C14_Witness ==
    /\ frame > 0
    /\ moved.dy # 0
    /\ y = moved.y
    /\ x = moved.x + moved.dx
    /\ PyInt(x) # PyInt(moved.x)
    /\ <<PyInt(x), PyInt(moved.y + moved.dy)>> \in DOMAIN world_map
    /\ <<PyInt(moved.x), PyInt(moved.y + moved.dy)>> \notin DOMAIN world_map

\* The two gridline scans of the ray of index ray for the current pose.
scans_of(ray) ==
    LET sin_a == Sin(ray_angle_of(ray))
        cos_a == Cos(ray_angle_of(ray))
    IN  [hor  |-> horizontals(x, y, PyInt(y), sin_a, cos_a),
         vert |-> verticals(x, y, PyInt(x), sin_a, cos_a)]

\* C15: the record of every ray is the no-hit record when neither scan
\* found a wall; otherwise it holds the depth (fisheye-corrected) and the
\* wall ID of the vertical scan when that scan found a wall strictly nearer
\* than the horizontal one, and those of the horizontal scan otherwise: the
\* ID is the one of the tile the chosen scan found on this very ray.
C15_NearerScan ==
    AfterCast =>
        \A r \in 1 .. NUM_RAYS :
            LET sc   == scans_of(r - 1)
                v    == ray_casting_result[r]
                fish == Cos(AngleUnits(angle) - ray_angle_of(r - 1))
            IN  IF ~sc.hor.found /\ ~sc.vert.found THEN v = NoHit
                ELSE IF sc.vert.found
                        /\ (~sc.hor.found \/ sc.vert.depth < sc.hor.depth)
                THEN /\ v.texture = world_map[sc.vert.tile]
                     /\ v.depth = MulS(sc.vert.depth, fish)
                ELSE /\ v.texture = world_map[sc.hor.tile]
                     /\ v.depth = MulS(sc.hor.depth, fish)

\* A cast with a ray whose two scans found walls of different IDs, the
\* vertical one nearer, a ray where the horizontal one is nearer, and a ray
\* where the vertical scan found nothing while the horizontal one did.
C15_Witness ==
    /\ AfterCast
    /\ \E r \in 1 .. NUM_RAYS :
          LET sc == scans_of(r - 1)
          IN  /\ sc.hor.found /\ sc.vert.found
              /\ world_map[sc.hor.tile] # world_map[sc.vert.tile]
              /\ sc.vert.depth < sc.hor.depth
              /\ ray_casting_result[r].texture = world_map[sc.vert.tile]
    /\ \E r \in 1 .. NUM_RAYS :
          LET sc == scans_of(r - 1)
          IN  /\ sc.hor.found /\ sc.vert.found
              /\ world_map[sc.hor.tile] # world_map[sc.vert.tile]
              /\ sc.hor.depth < sc.vert.depth
              /\ ray_casting_result[r].texture = world_map[sc.hor.tile]
    /\ \E r \in 1 .. NUM_RAYS :
          LET sc == scans_of(r - 1)
          IN  /\ sc.hor.found /\ ~sc.vert.found
              /\ ray_casting_result[r].texture = world_map[sc.hor.tile]

\* The first crossing of the horizontal gridlines by the ray of index ray,
\* and the steps from one crossing to the next.
hor_start(ray) ==
    LET sin_a == Sin(ray_angle_of(ray))
        cos_a == Cos(ray_angle_of(ray))
        y_hor == IF sin_a > 0 THEN (PyInt(y) + 1) * U ELSE PyInt(y) * U - EPS
        dy    == IF sin_a > 0 THEN U ELSE -U
        depth_hor   == FDiv((y_hor - y) * S, sin_a)
        delta_depth == FDiv(dy * S, sin_a)
    IN  [x |-> x + MulS(depth_hor, cos_a), y |-> y_hor, depth |-> depth_hor,
         dx |-> MulS(delta_depth, cos_a), dy |-> dy, delta_depth |-> delta_depth]

\* The same for the vertical gridlines.
vert_start(ray) ==
    LET sin_a  == Sin(ray_angle_of(ray))
        cos_a  == Cos(ray_angle_of(ray))
        x_vert == IF cos_a > 0 THEN (PyInt(x) + 1) * U ELSE PyInt(x) * U - EPS
        dx     == IF cos_a > 0 THEN U ELSE -U
        depth_vert  == FDiv((x_vert - x) * S, cos_a)
        delta_depth == FDiv(dx * S, cos_a)
    IN  [x |-> x_vert, y |-> y + MulS(depth_vert, sin_a), depth |-> depth_vert,
         dx |-> dx, dy |-> MulS(delta_depth, sin_a), delta_depth |-> delta_depth]

\* The tile of the k-th crossing (k = 0 the first) of a scan started at st,
\* and whether the result res of the scan is that crossing.
crossing_tile(st, k) == <<PyInt(st.x + k * st.dx), PyInt(st.y + k * st.dy)>>
is_crossing(res, st, k) ==
    /\ res.x = st.x + k * st.dx
    /\ res.y = st.y + k * st.dy
    /\ res.depth = st.depth + k * st.delta_depth
    /\ res.tile = crossing_tile(st, k)

\* What C16 says of one scan: the depth grows from crossing to crossing;
\* a scan that found a wall reports one of the first MAX_DEPTH crossings,
\* whose tile is in world_map while the tile of no crossing before it is;
\* a scan that found none saw no wall tile at any of them.
first_wall_crossing(res, st) ==
    /\ st.delta_depth > 0
    /\ IF res.found
       THEN \E k \in 0 .. MAX_DEPTH - 1 :
               /\ is_crossing(res, st, k)
               /\ crossing_tile(st, k) \in DOMAIN world_map
               /\ \A j \in 0 .. k - 1 : crossing_tile(st, j) \notin DOMAIN world_map
       ELSE \A k \in 0 .. MAX_DEPTH - 1 : crossing_tile(st, k) \notin DOMAIN world_map

\* C16: for every ray of a cast, each of the two gridline scans goes through
\* its crossings in increasing depth, at most MAX_DEPTH of them, and
\* reports the first one whose tile is in world_map, with that tile's ID
\* and depth; when none of them is, the ray's record carries no ID of that
\* scan and the scan counts as infinitely far.
C16_FirstCrossing ==
    pc = "sprites" =>
        \A r \in 1 .. NUM_RAYS :
            LET sc == scans_of(r - 1)
                c  == cast_ray(ray_angle_of(r - 1), 1, 1)
            IN  /\ first_wall_crossing(sc.hor, hor_start(r - 1))
                /\ first_wall_crossing(sc.vert, vert_start(r - 1))
                /\ c.texture_hor = IF sc.hor.found THEN world_map[sc.hor.tile]
                                   ELSE NONE
                /\ c.texture_vert = IF sc.vert.found THEN world_map[sc.vert.tile]
                                    ELSE NONE
                /\ (~sc.hor.found /\ ~sc.vert.found) => c.raw = INF

\* A cast with a ray whose horizontal scan found its wall at the third
\* crossing or later, and a ray whose vertical scan went through all
\* MAX_DEPTH crossings without a wall.
C16_Witness ==
    /\ pc = "sprites"
    /\ Len(ray_casting_result) = NUM_RAYS
    /\ \E r \in 1 .. NUM_RAYS :
          LET sc == scans_of(r - 1)
          IN  /\ sc.hor.found
              /\ sc.hor.depth >= hor_start(r - 1).depth
                                   + 2 * hor_start(r - 1).delta_depth
    /\ \E r \in 1 .. NUM_RAYS : ~scans_of(r - 1).vert.found

\* C17: once the sprites of a frame are updated, objects_to_render holds
\* the items of that frame and no other: the wall column of every ray whose
\* record is a hit, and the billboard of every sprite get_sprite projects,
\* one each, nothing left from the frame before; and the blits the
\* compositor makes of it are as many, the billboards among them.
C17_FrameItems ==
    pc \in {"draw", "ready"} =>
        LET hits  == {r \in 1 .. Len(ray_casting_result) :
                         ray_casting_result[r] # NoHit}
            shown == {n \in 1 .. Len(sprite_list) :
                         get_sprite(sprite_list[n]).projected}
        IN  /\ Len(objects_to_render) = Cardinality(hits) + Cardinality(shown)
            /\ \A r \in hits : \E i \in WallItems :
                  objects_to_render[i] = wall_item(r - 1, ray_casting_result[r])
            /\ \A n \in shown : \E i \in SpriteItems :
                  objects_to_render[i] = sprite_item(n, get_sprite(sprite_list[n]))
            /\ pc = "ready" =>
                  /\ Len(screen) = Len(objects_to_render)
                  /\ \A i \in SpriteItems : \E j \in 1 .. Len(screen) :
                        screen[j] = objects_to_render[i]

\* The end of a later frame than the first, with wall columns and a
\* billboard in the list and the billboard among the blits.
C17_Witness ==
    /\ pc = "ready"
    /\ frame > 0
    /\ WallItems # {}
    /\ SpriteItems # {}
    /\ \E j \in 1 .. Len(screen) : screen[j].kind = "sprite"

\* C18: the offset of every record of a wall hit is at least 0 and below 1
\* (U in the units of the model), for a vertical and for a horizontal hit,
\* also when the coordinate of the hit point along the wall is a whole
\* number.
C18_OffsetBelowOne ==
    AfterCast =>
        \A r \in 1 .. NUM_RAYS :
            ray_casting_result[r] # NoHit =>
                /\ 0 <= ray_casting_result[r].offset
                /\ ray_casting_result[r].offset < U

\* The position (px, py) is on a tile strictly inside the outer border of
\* the map, and that tile is empty.
inside_border(px, py) ==
    /\ Floor(px) \in 1 .. Len(mini_map[1]) - 2
    /\ Floor(py) \in 1 .. Len(mini_map) - 2
empty_tile(px, py) == <<Floor(px), Floor(py)>> \notin DOMAIN world_map

\* What C19 says of one call: the viewer is on an empty tile strictly
\* inside the border, which is its old tile or a neighbour of it, and the
\* tile it went through on the way (new column, old row) is empty too.
stays_inside ==
    /\ inside_border(x', y') /\ empty_tile(x', y')
    /\ Abs(Floor(x') - Floor(x)) <= 1
    /\ Abs(Floor(y') - Floor(y)) <= 1
    /\ empty_tile(x', y)

\* C19 as stated: on the shipped map, a movement call made with
\* PLAYER_SPEED * delta_time < 1 by a viewer on an empty tile inside the
\* border leaves it on an empty tile inside the border, its own or a
\* neighbouring one, with no wall tile passed or jumped over.
C19_SpeedBelowOne ==
    [][(/\ PLAYER_SPEED * delta_time < U
        /\ inside_border(x, y) /\ empty_tile(x, y))
       => stays_inside]_vars

\* C19: the same for a call whose displacement is smaller than one tile on
\* each axis, |dx| < 1 and |dy| < 1.
C19_StepBelowOne ==
    [][(/\ Abs(moved'.dx) < U /\ Abs(moved'.dy) < U
        /\ inside_border(x, y) /\ empty_tile(x, y))
       => stays_inside]_vars

\* The last call of a walk, with a displacement below one tile on each
\* axis, whose x part the outer border refused.
C19_Witness ==
    /\ frame = MaxWalkFrames
    /\ Abs(moved.dx) < U /\ Abs(moved.dy) < U
    /\ moved.dx # 0
    /\ x = moved.x
    /\ PyInt(moved.x + moved.dx) \in {0, Len(mini_map[1]) - 1}
    /\ inside_border(x, y) /\ empty_tile(x, y)

====
